---- MODULE Spec2Model ----
(***************************************************************************)
(* script_args_parser: resolution of script arguments from CLI, environment *)
(* and defaults (src/script_args_parser/parser.py).                        *)
(*                                                                         *)
(* Text is a sequence of one-character strings, so that splitting,         *)
(* quoting and conversion are computed character by character.             *)
(* Python values are tagged records: None, PyStr, PyBool, PyInt, PyList.           *)
(***************************************************************************)
EXTENDS Naturals, Integers, Sequences, FiniteSets, TLC

VARIABLES
    pc,                \* position inside ArgumentsParser.__init__
    definitions,       \* the parsed toml: one raw definition per argument
    cli_params,        \* per argument, the occurrences of its option on the command line
    environ,           \* os.environ: variable name -> text or None
    arguments,         \* self.arguments: the Argument descriptors
    arguments_values,  \* self.arguments_values: name -> value
    exc                \* the exception that left __init__, or None

vars == <<pc, definitions, cli_params, environ, arguments, arguments_values, exc>>

----------------------------------------------------------------------------
\* Python values

None == [k |-> "None"]
PyStr(s) == [k |-> "str", s |-> s]
PyBool(b) == [k |-> "bool", b |-> b]
PyInt(n) == [k |-> "int", n |-> n]
PyList(xs) == [k |-> "list", xs |-> xs]
Raise(type, info) == [k |-> "raise", type |-> type, info |-> info]

IsRaise(v) == v.k = "raise"
IsStr(v) == v.k = "str"

----------------------------------------------------------------------------
\* Text helpers (str.find, str.replace, str.strip, str.split)

SubStr(s, i, j) == IF j < i THEN <<>> ELSE SubSeq(s, i, j)

StartsAt(s, p, i) ==
    /\ i >= 1
    /\ i + Len(p) - 1 <= Len(s)
    /\ \A j \in 1..Len(p) : s[i + j - 1] = p[j]

\* str.find(p) with 1-based positions; 0 when p does not occur
Find(s, p) ==
    LET hits == {i \in 1..Len(s) : StartsAt(s, p, i)}
    IN IF hits = {} THEN 0 ELSE CHOOSE i \in hits : \A j \in hits : i <= j

\* str.replace(p, r, 1)
ReplaceFirst(s, p, r) ==
    LET i == Find(s, p)
    IN IF i = 0 THEN s
       ELSE SubStr(s, 1, i - 1) \o r \o SubStr(s, i + Len(p), Len(s))

PyWhitespace == {" ", "\t", "\n", "\r"}

RECURSIVE LStrip(_)
LStrip(s) == IF s # <<>> /\ Head(s) \in PyWhitespace THEN LStrip(Tail(s)) ELSE s

RECURSIVE RStrip(_)
RStrip(s) ==
    IF s # <<>> /\ s[Len(s)] \in PyWhitespace THEN RStrip(SubStr(s, 1, Len(s) - 1)) ELSE s

Strip(s) == RStrip(LStrip(s))

\* str.split(sep) for a one-character separator
RECURSIVE SplitOn(_, _)
SplitOn(s, sep) ==
    LET i == Find(s, <<sep>>)
    IN IF i = 0 THEN <<s>>
       ELSE <<SubStr(s, 1, i - 1)>> \o SplitOn(SubStr(s, i + 1, Len(s)), sep)

----------------------------------------------------------------------------
\* shlex (the standard library lexer the parser calls), with whitespace_split
\* set, as both call sites set it, and no punctuation_chars.

ShlexQuotes == {"'", "\""}
ShlexEscape == {"\\"}
ShlexEscapedQuotes == {"\""}
ShlexWordChars ==
    {"a","b","c","d","e","f","g","h","i","j","k","l","m","n","o","p","q","r","s",
     "t","u","v","w","x","y","z","A","B","C","D","E","F","G","H","I","J","K","L",
     "M","N","O","P","Q","R","S","T","U","V","W","X","Y","Z","0","1","2","3","4",
     "5","6","7","8","9","_"}

\* instream.readline(): the position after the next newline, or past the end
RECURSIVE AfterLine(_, _)
AfterLine(s, i) ==
    IF i > Len(s) THEN i
    ELSE IF s[i] = "\n" THEN i + 1
    ELSE AfterLine(s, i + 1)

\* shlex.read_token repeated by the iterator: lx is the lexer's settings
\* [posix, whitespace, commenters]; i is the read position; state is
\* self.state ("ws" for ' ', "word" for 'a', "eof" for None, or the quote or
\* escape character); token, quoted, esc are read_token's token, quoted and
\* escapedstate; out holds the tokens already returned.
RECURSIVE ShlexRun(_, _, _, _, _, _, _, _)
ShlexRun(s, lx, i, state, token, quoted, esc, out) ==
    LET eof == i > Len(s)
        c == IF eof THEN "" ELSE s[i]
        \* break: read_token returns; the iterator stops on the eof token
        Emit(st, tok, q, j) ==
            IF (lx.posix /\ ~q /\ tok = <<>>) \/ (~lx.posix /\ tok = <<>>)
            THEN PyList(out)
            ELSE ShlexRun(s, lx, j, st, <<>>, FALSE, "ws", Append(out, PyStr(tok)))
        \* "if self.token or (self.posix and quoted): break else: continue"
        EmitOrGo(st, tok, q, j) ==
            IF tok # <<>> \/ (lx.posix /\ q)
            THEN Emit(st, tok, q, j)
            ELSE ShlexRun(s, lx, j, st, tok, q, esc, out)
    IN
    IF state = "eof" THEN Emit("eof", <<>>, quoted, i)
    ELSE IF state = "ws" THEN
        IF eof THEN Emit("eof", token, quoted, i)
        ELSE IF c \in lx.whitespace THEN EmitOrGo("ws", token, quoted, i + 1)
        ELSE IF c \in lx.commenters THEN
            ShlexRun(s, lx, AfterLine(s, i + 1), "ws", token, quoted, esc, out)
        ELSE IF lx.posix /\ c \in ShlexEscape THEN
            ShlexRun(s, lx, i + 1, c, token, quoted, "word", out)
        ELSE IF c \in ShlexWordChars THEN
            ShlexRun(s, lx, i + 1, "word", <<c>>, quoted, esc, out)
        ELSE IF c \in ShlexQuotes THEN
            ShlexRun(s, lx, i + 1, c, IF lx.posix THEN token ELSE <<c>>, quoted, esc, out)
        ELSE
            ShlexRun(s, lx, i + 1, "word", <<c>>, quoted, esc, out)
    ELSE IF state \in ShlexQuotes THEN
        IF eof THEN Raise("ValueError", "No closing quotation")
        ELSE IF c = state THEN
            IF ~lx.posix THEN Emit("ws", Append(token, c), TRUE, i + 1)
            ELSE ShlexRun(s, lx, i + 1, "word", token, TRUE, esc, out)
        ELSE IF lx.posix /\ c \in ShlexEscape /\ state \in ShlexEscapedQuotes THEN
            ShlexRun(s, lx, i + 1, c, token, TRUE, state, out)
        ELSE
            ShlexRun(s, lx, i + 1, state, Append(token, c), TRUE, esc, out)
    ELSE IF state \in ShlexEscape THEN
        IF eof THEN Raise("ValueError", "No escaped character")
        ELSE
            LET kept == IF esc \in ShlexQuotes /\ c # state /\ c # esc
                        THEN Append(token, state) ELSE token
            IN ShlexRun(s, lx, i + 1, esc, Append(kept, c), quoted, esc, out)
    ELSE \* state = "word"
        IF eof THEN Emit("eof", token, quoted, i)
        ELSE IF c \in lx.whitespace THEN EmitOrGo("ws", token, quoted, i + 1)
        ELSE IF c \in lx.commenters THEN
            IF lx.posix THEN EmitOrGo("ws", token, quoted, AfterLine(s, i + 1))
            ELSE ShlexRun(s, lx, AfterLine(s, i + 1), "word", token, quoted, esc, out)
        ELSE IF lx.posix /\ c \in ShlexQuotes THEN
            ShlexRun(s, lx, i + 1, c, token, quoted, esc, out)
        ELSE IF lx.posix /\ c \in ShlexEscape THEN
            ShlexRun(s, lx, i + 1, c, token, quoted, "word", out)
        ELSE
            ShlexRun(s, lx, i + 1, "word", Append(token, c), quoted, esc, out)

Shlex(s, lx) == ShlexRun(s, lx, 1, "ws", <<>>, FALSE, "ws", <<>>)

\* shlex.split(s): posix, comments off, whitespace_split
shlex_split(s) ==
    Shlex(s, [posix |-> TRUE, whitespace |-> PyWhitespace, commenters |-> {}])

----------------------------------------------------------------------------
\* Tokenizing list and tuple values

\* mutant of SpreadDelimiters: doubled delimiters are left as they are
SpreadDelimiters_None(s) == s

\* "while argument_value.find(';;') != -1: replace(';;', '; ;', 1)"
RECURSIVE SpreadDelimiters(_)
SpreadDelimiters(s) ==
    IF Find(s, <<";", ";">>) = 0 THEN s
    ELSE SpreadDelimiters(ReplaceFirst(s, <<";", ";">>, <<";", " ", ";">>))

\* ArgumentsParser._split_list: the element texts of a list value
_split_list(argument, argument_value) ==
    IF argument_value = <<>> THEN PyList(<<PyStr(<<>>)>>)
    ELSE Shlex(SpreadDelimiters(<<" ">> \o argument_value \o <<" ">>),
               [posix |-> FALSE, whitespace |-> {";"}, commenters |-> {"#"}])

\* the loop of ArgumentsParser._parse_list over the split values
RECURSIVE ParseListLoop(_, _)
ParseListLoop(values, ret_val) ==
    IF values = <<>> THEN PyList(ret_val)
    ELSE LET parsed_value == shlex_split(Head(values).s)
         IN IF IsRaise(parsed_value) THEN parsed_value
            ELSE IF Len(parsed_value.xs) = 0
            THEN ParseListLoop(Tail(values), Append(ret_val, PyStr(<<>>)))
            ELSE ParseListLoop(Tail(values), Append(ret_val, parsed_value.xs[1]))

\* mutant of _parse_list: the split values are returned with their padding
\* and quotes, without the shell pass over each
_parse_list_Unstripped(argument, argument_value) ==
    _split_list(argument, argument_value)

\* ArgumentsParser._parse_list
_parse_list(argument, argument_value) ==
    LET split == _split_list(argument, argument_value)
    IN IF IsRaise(split) THEN split ELSE ParseListLoop(split.xs, <<>>)

\* mutant of _parse_tuple: no arity check
_parse_tuple_Unchecked(argument, argument_value) ==
    LET ret_val == shlex_split(argument_value)
    IN IF IsRaise(ret_val) THEN ret_val
       ELSE IF Len(ret_val.xs) = 0 THEN PyList(<<PyStr(<<>>)>>)
       ELSE ret_val

\* mutant of _parse_tuple: the arity check comes before the empty case
_parse_tuple_CheckFirst(argument, argument_value) ==
    LET ret_val == shlex_split(argument_value)
        shown == IF IsRaise(ret_val) \/ Len(ret_val.xs) # 0 THEN ret_val
                 ELSE PyList(<<PyStr(<<>>)>>)
    IN IF IsRaise(ret_val) THEN ret_val
       ELSE IF Len(shown.xs) # Len(argument.tuple_types)
       THEN Raise("RuntimeError",
                  [name |-> argument.name, expected |-> Len(argument.tuple_types),
                   actual |-> Len(shown.xs), value |-> argument_value])
       ELSE shown

\* ArgumentsParser._parse_tuple
_parse_tuple(argument, argument_value) ==
    LET ret_val == shlex_split(argument_value)
    IN IF IsRaise(ret_val) THEN ret_val
       ELSE IF Len(ret_val.xs) = 0 THEN PyList(<<PyStr(<<>>)>>)
       ELSE IF Len(ret_val.xs) # Len(argument.tuple_types)
       THEN Raise("RuntimeError",
                  [name |-> argument.name, expected |-> Len(argument.tuple_types),
                   actual |-> Len(ret_val.xs), value |-> argument_value])
       ELSE ret_val

\* mutant of _parse_list_of_tuples: the text is taken as one tuple, without
\* list splitting
_parse_list_of_tuples_Unsplit(argument, argument_value) ==
    LET parsed_value == _parse_tuple(argument, argument_value)
    IN IF IsRaise(parsed_value) THEN parsed_value ELSE PyList(<<parsed_value>>)

\* the loop of ArgumentsParser._parse_list_of_tuples over the split values
RECURSIVE ParseTuplesLoop(_, _, _)
ParseTuplesLoop(argument, values, ret_val) ==
    IF values = <<>> THEN PyList(ret_val)
    ELSE LET parsed_value == _parse_tuple(argument, Head(values).s)
         IN IF IsRaise(parsed_value) THEN parsed_value
            ELSE ParseTuplesLoop(argument, Tail(values), Append(ret_val, parsed_value))

\* ArgumentsParser._parse_list_of_tuples
_parse_list_of_tuples(argument, argument_value) ==
    LET split == _split_list(argument, argument_value)
    IN IF IsRaise(split) THEN split ELSE ParseTuplesLoop(argument, split.xs, <<>>)

----------------------------------------------------------------------------
\* Argument descriptors

T_str == <<"s","t","r">>
T_int == <<"i","n","t">>
T_bool == <<"b","o","o","l">>
T_switch == <<"s","w","i","t","c","h">>

\* re.match(r'list\[(.+)\]', type): the group, or None. The match starts at
\* the first character; (.+) is greedy, so it runs to the last ']' it can
\* reach without crossing a newline.
list_match(type) ==
    LET ends == {j \in 7..Len(type) :
                    /\ type[j] = "]"
                    /\ \A m \in 6..(j - 1) : type[m] # "\n"}
    IN IF StartsAt(type, <<"l","i","s","t","[">>, 1) /\ ends # {}
       THEN PyStr(SubStr(type, 6, (CHOOSE j \in ends : \A m \in ends : m <= j) - 1))
       ELSE None

\* re.search(r'tuple\[(.+?)\]', type): the group, or None. The leftmost
\* 'tuple[' that can be closed wins; (.+?) is lazy, so it stops at the first
\* ']' after at least one character.
tuple_match(type) ==
    LET Ends(i) == {j \in (i + 7)..Len(type) :
                       /\ type[j] = "]"
                       /\ \A m \in (i + 6)..(j - 1) : type[m] # "\n"}
        starts == {i \in 1..Len(type) : StartsAt(type, <<"t","u","p","l","e","[">>, i) /\ Ends(i) # {}}
    IN IF starts = {} THEN None
       ELSE LET i == CHOOSE i \in starts : \A m \in starts : i <= m
                j == CHOOSE j \in Ends(i) : \A m \in Ends(i) : j <= m
            IN PyStr(SubStr(type, i + 6, j - 1))

\* Argument.__post_init__ on the dataclass fields of one definition
Argument(def) ==
    LET lm == list_match(def.type)
        tm == tuple_match(def.type)
        parts == SplitOn(tm.s, ",")
    IN [name |-> def.name,
        type |-> def.type,
        env_var |-> def.env_var,
        default_value |-> def.default_value,
        is_list |-> lm # None,
        list_type |-> lm,
        is_tuple |-> tm # None,
        tuple_types |-> IF tm = None THEN <<>>
                        ELSE [i \in 1..Len(parts) |-> Strip(parts[i])]]

\* Argument.argparse_options: the keyword arguments for add_argument
argparse_options(argument) ==
    LET switch == argument.type = T_switch
    IN [dest |-> argument.name,
        action |-> IF argument.is_list THEN "append" ELSE "store",
        nargs |-> IF argument.is_tuple THEN PyInt(Len(argument.tuple_types))
                  ELSE IF switch THEN PyStr(<<"?">>)
                  ELSE None,
        const |-> IF switch THEN PyBool(TRUE) ELSE None]

----------------------------------------------------------------------------
\* Converters

\* mutant of str_to_bool: the match ignores the case of the first letter
str_to_bool_AnyCase(value) ==
    IF value \in {PyStr(<<"0">>), PyStr(<<"F","a","l","s","e">>), PyStr(<<"f","a","l","s","e">>)}
    THEN PyBool(FALSE)
    ELSE IF value \in {PyStr(<<"1">>), PyStr(<<"T","r","u","e">>), PyStr(<<"t","r","u","e">>)}
    THEN PyBool(TRUE)
    ELSE IF value.k = "str" THEN PyBool(value.s # <<>>)
    ELSE PyBool(value.b)

\* str_to_bool
str_to_bool(value) ==
    IF value \in {PyStr(<<"0">>), PyStr(<<"F","a","l","s","e">>)} THEN PyBool(FALSE)
    ELSE IF value \in {PyStr(<<"1">>), PyStr(<<"T","r","u","e">>)} THEN PyBool(TRUE)
    ELSE IF value.k = "str" THEN PyBool(value.s # <<>>)
    ELSE PyBool(value.b)

Digits == <<"0", "1", "2", "3", "4", "5", "6", "7", "8", "9">>
IsDigit(c) == \E i \in 1..Len(Digits) : Digits[i] = c
DigitVal(c) == (CHOOSE i \in 1..Len(Digits) : Digits[i] = c) - 1

\* the digits of an integer literal: digits, with single underscores between
IsIntBody(ds) ==
    /\ ds # <<>>
    /\ IsDigit(ds[1])
    /\ IsDigit(ds[Len(ds)])
    /\ \A i \in 1..Len(ds) : IsDigit(ds[i]) \/ ds[i] = "_"
    /\ \A i \in 1..(Len(ds) - 1) : ~(ds[i] = "_" /\ ds[i + 1] = "_")

RECURSIVE IntBodyVal(_, _)
IntBodyVal(ds, acc) ==
    IF ds = <<>> THEN acc
    ELSE IF Head(ds) = "_" THEN IntBodyVal(Tail(ds), acc)
    ELSE IntBodyVal(Tail(ds), 10 * acc + DigitVal(Head(ds)))

\* int(value) on text: surrounding whitespace, an optional sign, base 10
py_int(value) ==
    LET s == Strip(value.s)
        signed == s # <<>> /\ Head(s) \in {"+", "-"}
        ds == IF signed THEN Tail(s) ELSE s
    IN IF ~IsIntBody(ds)
       THEN Raise("ValueError", "invalid literal for int() with base 10")
       ELSE IF signed /\ Head(s) = "-" THEN PyInt(0 - IntBodyVal(ds, 0))
       ELSE PyInt(IntBodyVal(ds, 0))

\* str(value) on text
py_str(value) == value

KnownTypes == {T_str, T_int, T_bool, T_switch}

\* mutant of TYPES_MAPPING: an unknown name falls back to str
TYPES_MAPPING_Lenient(type, value) ==
    IF type = T_int THEN py_int(value)
    ELSE IF type \in {T_bool, T_switch} THEN str_to_bool(value)
    ELSE py_str(value)

\* ArgumentsParser.TYPES_MAPPING[type](value); the lookup fails first
TYPES_MAPPING(type, value) ==
    IF type = T_str THEN py_str(value)
    ELSE IF type = T_int THEN py_int(value)
    ELSE IF type = T_bool THEN str_to_bool(value)
    ELSE IF type = T_switch THEN str_to_bool(value)
    ELSE Raise("KeyError", type)

----------------------------------------------------------------------------
\* The command line reader (argparse, as _read_cli_arguments sets it up).
\* cli_params[name] lists the occurrences of the argument's option, each with
\* the texts that follow it.

\* one occurrence of an option: the value argparse takes from it
OccurrenceValue(options, texts) ==
    IF options.nargs = None THEN
        IF Len(texts) = 1 THEN PyStr(texts[1]) ELSE Raise("SystemExit", 2)
    ELSE IF options.nargs.k = "str" THEN
        IF Len(texts) = 0 THEN options.const
        ELSE IF Len(texts) = 1 THEN PyStr(texts[1])
        ELSE Raise("SystemExit", 2)
    ELSE
        IF Len(texts) = options.nargs.n
        THEN PyList([i \in 1..Len(texts) |-> PyStr(texts[i])])
        ELSE Raise("SystemExit", 2)

\* parse_args over the occurrences of one option: store keeps the last
\* value, append collects them; an option never given leaves None
RECURSIVE OptionValue(_, _, _)
OptionValue(options, occurrences, dest) ==
    IF occurrences = <<>> THEN dest
    ELSE LET v == OccurrenceValue(options, Head(occurrences))
         IN IF IsRaise(v) THEN v
            ELSE IF options.action = "append"
            THEN OptionValue(options, Tail(occurrences),
                             PyList((IF dest = None THEN <<>> ELSE dest.xs) \o <<v>>))
            ELSE OptionValue(options, Tail(occurrences), v)

Names(args) == {args[i].name : i \in 1..Len(args)}

\* ArgumentsParser._read_cli_arguments: vars(parse_args(cli_params)), or the
\* SystemExit of a usage error
_read_cli_arguments(args, params) ==
    LET Value(i) == OptionValue(argparse_options(args[i]), params[args[i].name], None)
        bad == {i \in 1..Len(args) : IsRaise(Value(i))}
    IN IF bad # {} THEN [values |-> <<>>, exc |-> Raise("SystemExit", 2)]
       ELSE [values |-> [name \in Names(args) |->
                            Value(CHOOSE i \in 1..Len(args) : args[i].name = name)],
             exc |-> None]

----------------------------------------------------------------------------
\* The three passes of ArgumentsParser.__init__

\* os.getenv
getenv(env, var) == IF var \in DOMAIN env THEN env[var] ELSE None

\* mutant of FallbackOne: "if not value" in place of "is None", so that an
\* empty text counts as absent
FallbackOne_Falsy(argument, value, env) ==
    LET Missing(v) == v = None \/ v = PyStr(<<>>)
        from_env == IF Missing(value) /\ argument.env_var # None
                    THEN getenv(env, argument.env_var.s) ELSE value
    IN IF Missing(from_env) /\ argument.default_value # None
       THEN argument.default_value ELSE from_env

\* the body of the loop of _fallback_values for one argument
FallbackOne(argument, value, env) ==
    LET from_env == IF value = None /\ argument.env_var # None
                    THEN getenv(env, argument.env_var.s) ELSE value
    IN IF from_env = None /\ argument.default_value # None
       THEN argument.default_value ELSE from_env

\* ArgumentsParser._fallback_values
RECURSIVE _fallback_values(_, _, _, _)
_fallback_values(args, i, values, env) ==
    IF i > Len(args) THEN values
    ELSE _fallback_values(args, i + 1,
            [values EXCEPT ![args[i].name] = FallbackOne(args[i], @, env)], env)

RECURSIVE JoinTexts(_)
JoinTexts(xs) ==
    IF Len(xs) = 1 THEN Head(xs).s ELSE Head(xs).s \o <<";">> \o JoinTexts(Tail(xs))

\* mutant of CalculateOne: no isinstance check; a list that the command line
\* supplied as a sequence of texts is joined and split like a text
CalculateOne_SplitsSequences(argument, argument_value) ==
    IF ~argument.is_list /\ ~argument.is_tuple THEN argument_value
    ELSE IF argument_value = None THEN argument_value
    ELSE IF argument.is_list /\ ~argument.is_tuple
    THEN _parse_list(argument, IF IsStr(argument_value) THEN argument_value.s
                               ELSE JoinTexts(argument_value.xs))
    ELSE IF ~IsStr(argument_value) THEN argument_value
    ELSE IF ~argument.is_list /\ argument.is_tuple
    THEN _parse_tuple(argument, argument_value.s)
    ELSE _parse_list_of_tuples(argument, argument_value.s)

\* the body of the loop of _calculate_lists_and_tuples for one argument
CalculateOne(argument, argument_value) ==
    IF ~argument.is_list /\ ~argument.is_tuple THEN argument_value
    ELSE IF argument_value = None \/ ~IsStr(argument_value) THEN argument_value
    ELSE IF argument.is_list /\ ~argument.is_tuple
    THEN _parse_list(argument, argument_value.s)
    ELSE IF ~argument.is_list /\ argument.is_tuple
    THEN _parse_tuple(argument, argument_value.s)
    ELSE _parse_list_of_tuples(argument, argument_value.s)

\* ArgumentsParser._calculate_lists_and_tuples: the values it leaves and the
\* exception that ended it, if any
RECURSIVE _calculate_lists_and_tuples(_, _, _)
_calculate_lists_and_tuples(args, i, values) ==
    IF i > Len(args) THEN [values |-> values, exc |-> None]
    ELSE LET r == CalculateOne(args[i], values[args[i].name])
         IN IF IsRaise(r) THEN [values |-> values, exc |-> r]
            ELSE _calculate_lists_and_tuples(args, i + 1,
                    [values EXCEPT ![args[i].name] = r])

\* [TYPES_MAPPING[type](x) for x in xs]
RECURSIVE ConvertEach(_, _, _)
ConvertEach(type, xs, done) ==
    IF xs = <<>> THEN PyList(done)
    ELSE LET v == TYPES_MAPPING(type, Head(xs))
         IN IF IsRaise(v) THEN v ELSE ConvertEach(type, Tail(xs), Append(done, v))

\* [conv(value) for conv, value in zip(converters, xs)]: as long as the shorter
RECURSIVE ConvertZip(_, _, _)
ConvertZip(types, xs, done) ==
    IF types = <<>> \/ xs = <<>> THEN PyList(done)
    ELSE LET v == TYPES_MAPPING(Head(types), Head(xs))
         IN IF IsRaise(v) THEN v
            ELSE ConvertZip(Tail(types), Tail(xs), Append(done, v))

RECURSIVE ConvertZipEach(_, _, _)
ConvertZipEach(types, elems, done) ==
    IF elems = <<>> THEN PyList(done)
    ELSE LET v == ConvertZip(types, Head(elems).xs, <<>>)
         IN IF IsRaise(v) THEN v
            ELSE ConvertZipEach(types, Tail(elems), Append(done, v))

\* converters = [TYPES_MAPPING[x] for x in tuple_types]: the first unknown
\* name raises
Converters(types) ==
    LET unknown == {i \in 1..Len(types) : types[i] \notin KnownTypes}
    IN IF unknown = {} THEN None
       ELSE Raise("KeyError", types[CHOOSE i \in unknown : \A j \in unknown : i <= j])

\* the body of the loop of _convert_values for one argument
ConvertOne(argument, argument_value) ==
    IF argument_value = None THEN argument_value
    ELSE IF argument.is_list /\ ~argument.is_tuple
    THEN ConvertEach(argument.list_type.s, argument_value.xs, <<>>)
    ELSE IF ~argument.is_list /\ argument.is_tuple
    THEN IF Converters(argument.tuple_types) # None
         THEN Converters(argument.tuple_types)
         ELSE ConvertZip(argument.tuple_types, argument_value.xs, <<>>)
    ELSE IF argument.is_list /\ argument.is_tuple
    THEN IF Converters(argument.tuple_types) # None
         THEN Converters(argument.tuple_types)
         ELSE ConvertZipEach(argument.tuple_types, argument_value.xs, <<>>)
    ELSE TYPES_MAPPING(argument.type, argument_value)

\* mutant of _convert_values: a failing conversion leaves the argument None
\* and the loop goes on
RECURSIVE _convert_values_Swallow(_, _, _)
_convert_values_Swallow(args, i, values) ==
    IF i > Len(args) THEN [values |-> values, exc |-> None]
    ELSE LET r == ConvertOne(args[i], values[args[i].name])
         IN _convert_values_Swallow(args, i + 1,
                [values EXCEPT ![args[i].name] = IF IsRaise(r) THEN None ELSE r])

\* ArgumentsParser._convert_values
RECURSIVE _convert_values(_, _, _)
_convert_values(args, i, values) ==
    IF i > Len(args) THEN [values |-> values, exc |-> None]
    ELSE LET r == ConvertOne(args[i], values[args[i].name])
         IN IF IsRaise(r) THEN [values |-> values, exc |-> r]
            ELSE _convert_values(args, i + 1, [values EXCEPT ![args[i].name] = r])

----------------------------------------------------------------------------
\* ArgumentsParser.__init__, one action per call

\* self.arguments = self._parse_toml_definitions()
ParseTomlDefinitions ==
    /\ pc = "parse_toml"
    /\ arguments' = [i \in 1..Len(definitions) |-> Argument(definitions[i])]
    /\ pc' = "read_cli"
    /\ UNCHANGED <<definitions, cli_params, environ, arguments_values, exc>>

\* self.arguments_values = self._read_cli_arguments(cli_params)
ReadCliArguments ==
    /\ pc = "read_cli"
    /\ LET r == _read_cli_arguments(arguments, cli_params)
       IN /\ arguments_values' = r.values
          /\ exc' = r.exc
          /\ pc' = IF r.exc = None THEN "fallback" ELSE "raised"
    /\ UNCHANGED <<definitions, cli_params, environ, arguments>>

\* self._fallback_values()
FallbackValues ==
    /\ pc = "fallback"
    /\ arguments_values' = _fallback_values(arguments, 1, arguments_values, environ)
    /\ pc' = "calculate"
    /\ UNCHANGED <<definitions, cli_params, environ, arguments, exc>>

\* self._calculate_lists_and_tuples()
CalculateListsAndTuples ==
    /\ pc = "calculate"
    /\ LET r == _calculate_lists_and_tuples(arguments, 1, arguments_values)
       IN /\ arguments_values' = r.values
          /\ exc' = r.exc
          /\ pc' = IF r.exc = None THEN "convert" ELSE "raised"
    /\ UNCHANGED <<definitions, cli_params, environ, arguments>>

\* self._convert_values()
ConvertValues ==
    /\ pc = "convert"
    /\ LET r == _convert_values(arguments, 1, arguments_values)
       IN /\ arguments_values' = r.values
          /\ exc' = r.exc
          /\ pc' = IF r.exc = None THEN "done" ELSE "raised"
    /\ UNCHANGED <<definitions, cli_params, environ, arguments>>

Next ==
    \/ ParseTomlDefinitions
    \/ ReadCliArguments
    \/ FallbackValues
    \/ CalculateListsAndTuples
    \/ ConvertValues

----------------------------------------------------------------------------
\* Inputs: the type strings, texts and command lines the runs are drawn from

\* list[str]
T_list_str == <<"l","i","s","t","[","s","t","r","]">>
\* list[int]
T_list_int == <<"l","i","s","t","[","i","n","t","]">>
\* tuple[str]
T_tuple_str == <<"t","u","p","l","e","[","s","t","r","]">>
\* tuple[int,str]
T_tuple_int_str == <<"t","u","p","l","e","[","i","n","t",",","s","t","r","]">>
\* tuple[str, int]
T_tuple_str_int == <<"t","u","p","l","e","[","s","t","r",","," ","i","n","t","]">>
\* list[tuple[int,int]]
T_list_tuple_int_int == <<"l","i","s","t","[","t","u","p","l","e","[","i","n","t",",","i","n","t","]","]">>
\* list[tuple[str,int]]
T_list_tuple_str_int == <<"l","i","s","t","[","t","u","p","l","e","[","s","t","r",",","i","n","t","]","]">>
\* list[foo]
T_list_foo == <<"l","i","s","t","[","f","o","o","]">>
\* tuple[int,foo]
T_tuple_int_foo == <<"t","u","p","l","e","[","i","n","t",",","f","o","o","]">>

EnvX == <<"X","_","E","N","V">>
EnvY == <<"Y","_","E","N","V">>

\* the texts "", "1", "1;2", "1 a"
RawPool == {<<>>, <<"1">>, <<"1", ";", "2">>, <<"1", " ", "a">>}

\* command lines for one option: not given; given with ""; given alone; given
\* twice with "1;2" and "3 4"; given with the two texts "1" and "a b"; given
\* twice with two texts each; given with "1"
CliPool ==
    {<<>>,
     <<<< <<>> >>>>,
     << <<>> >>,
     <<<< <<"1", ";", "2">> >>, << <<"3", " ", "4">> >>>>,
     <<<< <<"1">>, <<"a", " ", "b">> >>>>,
     <<<< <<"1">>, <<"2">> >>, << <<"3">>, <<"4">> >>>>,
     <<<< <<"1">> >>>>}

\* an environment variable: not named by the definition, or named and unset,
\* or named and set to a text
EnvCases(pool) ==
    {[declared |-> FALSE, value |-> None]} \cup
    {[declared |-> TRUE, value |-> v] : v \in {None} \cup {PyStr(s) : s \in pool}}

DefaultCases(pool) == {None} \cup {PyStr(s) : s \in pool}

\* the inputs that concern one argument: its definition, the occurrences of
\* its option and the value of its environment variable
Inputs(name, var, types, clis, envs, defaults) ==
    {[def |-> [name |-> name, type |-> ty,
               env_var |-> IF e.declared THEN PyStr(var) ELSE None,
               default_value |-> d],
      cli |-> c, env |-> e.value] :
        ty \in types, c \in clis, e \in envs, d \in defaults}

XTypes == {T_str, T_int, T_switch, T_list_str, T_tuple_int_str,
           T_list_tuple_int_int, T_list_foo, T_tuple_int_foo}
XInputs == Inputs("x", EnvX, XTypes, CliPool, EnvCases(RawPool), DefaultCases(RawPool))

YTypes == {T_int, T_tuple_int_str}
YInputs == Inputs("y", EnvY, YTypes, {<<>>, <<<< <<"1">> >>>>},
                  {[declared |-> FALSE, value |-> None],
                   [declared |-> TRUE, value |-> PyStr(<<"1", " ", "a">>)]},
                  DefaultCases({<<"1">>}))

\* entry of __init__ with two arguments, x declared before y
Init ==
    /\ \E ix \in XInputs, iy \in YInputs :
        /\ definitions = <<ix.def, iy.def>>
        /\ cli_params = [n \in {"x", "y"} |-> IF n = "x" THEN ix.cli ELSE iy.cli]
        /\ environ = [v \in {EnvX, EnvY} |-> IF v = EnvX THEN ix.env ELSE iy.env]
    /\ pc = "parse_toml"
    /\ arguments = <<>>
    /\ arguments_values = <<>>
    /\ exc = None

Spec == Init /\ [][Next]_vars

\* texts of up to MaxLen characters over Alphabet, and the texts of the
\* documented examples
MaxLen == 3
Alphabet == {"a", "1", " ", ";", "\"", "#"}
AllTexts == UNION {[1..n -> Alphabet] : n \in 0..MaxLen}
Examples ==
    {<<"a",";",";","b">>,
     <<"a",";","b",";","c">>,
     <<"5"," ","h","e","l","l","o">>,
     <<"1"," ","2",";","3"," ","4">>,
     <<"1"," ","2",";",";","3"," ","4">>,
     <<"1"," ","2",";","3">>,
     <<"1"," ","2"," ","3">>,
     <<"1",";",";","2">>,
     <<"F","a","l","s","e">>,
     <<"T","r","u","e">>,
     <<"y","e","s">>,
     <<"f","a","l","s","e">>,
     <<"0","0">>}
RawTexts == AllTexts \cup Examples

RawTypes == {T_str, T_int, T_bool, T_switch, T_list_str, T_list_int, T_tuple_str,
             T_tuple_int_str, T_tuple_str_int, T_list_tuple_int_int,
             T_list_tuple_str_int}

\* entry of __init__ with one argument whose option is not given and whose
\* text comes from its environment variable or from its default
InitRaw ==
    /\ \E ty \in RawTypes, raw \in RawTexts, from_env \in BOOLEAN :
        /\ definitions = <<[name |-> "x", type |-> ty,
                            env_var |-> IF from_env THEN PyStr(EnvX) ELSE None,
                            default_value |-> IF from_env THEN None ELSE PyStr(raw)]>>
        /\ environ = [v \in {EnvX} |-> IF from_env THEN PyStr(raw) ELSE None]
    /\ cli_params = [n \in {"x"} |-> <<>>]
    /\ pc = "parse_toml"
    /\ arguments = <<>>
    /\ arguments_values = <<>>
    /\ exc = None

SpecRaw == InitRaw /\ [][Next]_vars

----------------------------------------------------------------------------
\* Properties

ArgIndex == 1..Len(definitions)
NameOf(i) == definitions[i].name
Constructed == pc # "parse_toml"
Returned == pc = "done"

\* the three sources of argument i, as given to __init__
CliGiven(i) ==
    OptionValue(argparse_options(Argument(definitions[i])), cli_params[NameOf(i)], None)
EnvGiven(i) ==
    IF definitions[i].env_var = None THEN None
    ELSE getenv(environ, definitions[i].env_var.s)
DefaultGiven(i) == definitions[i].default_value

\* the first source that is not absent, in the order CLI, environment, default
Resolved(i) ==
    IF cli_params[NameOf(i)] # <<>> THEN CliGiven(i)
    ELSE IF EnvGiven(i) # None THEN EnvGiven(i)
    ELSE IF DefaultGiven(i) # None THEN DefaultGiven(i)
    ELSE None

\* argument i takes its text from the environment or the default
FromText(i) == cli_params[NameOf(i)] = <<>> /\ IsStr(Resolved(i))
RawText(i) == Resolved(i).s

ListOnly(i) == arguments[i].is_list /\ ~arguments[i].is_tuple
TupleOnly(i) == ~arguments[i].is_list /\ arguments[i].is_tuple
ListOfTuples(i) == arguments[i].is_list /\ arguments[i].is_tuple
Arity(i) == Len(arguments[i].tuple_types)
ValueOf(i) == arguments_values[NameOf(i)]

\* C1: after the fallback pass every argument holds the first non-absent of
\* its CLI value, its environment value and its default, an empty text
\* counting as present; the returned value is that one tokenized and coerced,
\* and is None, untouched by coercion, exactly when all three are absent.
C1_Precedence ==
    /\ pc = "calculate" =>
        \A i \in ArgIndex : ValueOf(i) = Resolved(i)
    /\ pc \in {"convert", "done"} =>
        \A i \in ArgIndex : Resolved(i) = None => ValueOf(i) = None
    /\ Returned =>
        \A i \in ArgIndex :
            /\ ValueOf(i) = ConvertOne(arguments[i], CalculateOne(arguments[i], Resolved(i)))
            /\ ValueOf(i) = None <=>
                (cli_params[NameOf(i)] = <<>> /\ EnvGiven(i) = None /\ DefaultGiven(i) = None)

\* an empty CLI text has won over a set environment variable and a default,
\* and an empty environment text over a default
C1_Witness ==
    /\ Returned
    /\ definitions[1].type = T_str
    /\ cli_params["x"] = <<<< <<>> >>>>
    /\ EnvGiven(1) = PyStr(<<"1">>)
    /\ DefaultGiven(1) = PyStr(<<"1", ";", "2">>)
    /\ ValueOf(1) = PyStr(<<>>)

\* what tokenizing and coercing the resolved value of argument i alone gives
Outcome(i) ==
    LET tokens == CalculateOne(arguments[i], Resolved(i))
    IN IF IsRaise(tokens) THEN tokens ELSE ConvertOne(arguments[i], tokens)

AllAbsent(i) ==
    cli_params[NameOf(i)] = <<>> /\ EnvGiven(i) = None /\ DefaultGiven(i) = None

\* C9: a mapping is returned only if no argument fails its arity check or its
\* conversion, whatever the other arguments hold; an exception ends the run,
\* and in a returned mapping an argument is None only if its CLI value, its
\* environment value and its default are all absent.
C9_FailuresAreFatal ==
    /\ Returned =>
        \A i \in ArgIndex :
            /\ ~IsRaise(Outcome(i))
            /\ ~IsRaise(ValueOf(i))
            /\ ValueOf(i) = None => AllAbsent(i)
    /\ pc = "raised" <=> exc # None
    /\ pc = "raised" => ~ENABLED Next

\* y fails to convert after x, which has a value, was converted
C9_Witness ==
    /\ pc = "raised"
    /\ exc.type = "ValueError"
    /\ ~AllAbsent(1)
    /\ ~IsRaise(Outcome(1))
    /\ IsRaise(Outcome(2))
    /\ arguments_values["x"] = Outcome(1)

\* the texts the command line supplied for argument i, in the shape the
\* reader hands them over
Supplied(i) ==
    LET occ == cli_params[NameOf(i)]
        Texts(ts) == PyList([m \in 1..Len(ts) |-> PyStr(ts[m])])
    IN IF ListOfTuples(i) THEN PyList([j \in 1..Len(occ) |-> Texts(occ[j])])
       ELSE IF ListOnly(i) THEN PyList([j \in 1..Len(occ) |-> PyStr(occ[j][1])])
       ELSE Texts(occ[Len(occ)])

\* C10: a list or tuple value that the command line supplied as a sequence of
\* texts is not split: after the tokenize pass it is the supplied texts, one
\* element or field each, in order, and the returned value is their
\* element-wise coercion; a text from the environment or the default is split
\* ("1;2" into "1" and "2").
C10_CliSequencesNotSplit ==
    pc \in {"convert", "done"} =>
        \A i \in ArgIndex :
            /\ (cli_params[NameOf(i)] # <<>> /\ (arguments[i].is_list \/ arguments[i].is_tuple)) =>
                /\ pc = "convert" => ValueOf(i) = Supplied(i)
                /\ pc = "done" =>
                    /\ ValueOf(i) = ConvertOne(arguments[i], Supplied(i))
                    /\ Len(ValueOf(i).xs) = Len(Supplied(i).xs)
            /\ (FromText(i) /\ ListOnly(i) /\ RawText(i) = <<"1", ";", "2">> /\ pc = "convert") =>
                ValueOf(i) = PyList(<<PyStr(<<"1">>), PyStr(<<"2">>)>>)

\* list[str] given twice on the command line keeps "1;2" and "3 4" whole
C10_Witness ==
    /\ Returned
    /\ arguments[1].type = T_list_str
    /\ cli_params["x"] = <<<< <<"1", ";", "2">> >>, << <<"3", " ", "4">> >>>>
    /\ ValueOf(1) = PyList(<<PyStr(<<"1", ";", "2">>), PyStr(<<"3", " ", "4">>)>>)

\* argument i is declared with a scalar kind TYPES_MAPPING does not know
UsesUnknownKind(i) ==
    \/ ListOnly(i) /\ arguments[i].list_type.s \notin KnownTypes
    \/ arguments[i].is_tuple /\ \E j \in 1..Arity(i) : arguments[i].tuple_types[j] \notin KnownTypes
    \/ ~arguments[i].is_list /\ ~arguments[i].is_tuple /\ arguments[i].type \notin KnownTypes

\* C7 as stated: once the descriptors are constructed, none names an unknown
\* scalar kind (construction would have failed), and a tuple has at least one
\* field.
C7_Original ==
    Constructed =>
        \A i \in 1..Len(arguments) :
            /\ ~UsesUnknownKind(i)
            /\ arguments[i].is_tuple => Arity(i) >= 1

\* C7, amended: construction never fails and checks no kind: every definition
\* gets its descriptor, a tuple has at least one field, and an unknown kind is
\* met only by the coercion pass, as a KeyError, and only for an argument whose
\* resolved value is present; with the value absent the run returns.
C7_KindsCheckedAtCoercion ==
    /\ Constructed =>
        /\ Len(arguments) = Len(definitions)
        /\ \A i \in ArgIndex : arguments[i].is_tuple => Arity(i) >= 1
    /\ pc \in {"read_cli", "fallback", "calculate", "convert"} => exc = None
    /\ (pc = "raised" /\ exc.type = "KeyError") =>
        \E i \in ArgIndex : UsesUnknownKind(i) /\ Resolved(i) # None
    /\ Returned =>
        \A i \in ArgIndex : UsesUnknownKind(i) => ValueOf(i) = None

\* a descriptor of type list[foo] was constructed and the run returned
C7_Witness ==
    /\ Returned
    /\ arguments[1].type = T_list_foo
    /\ arguments[1].is_list
    /\ arguments[1].list_type = PyStr(<<"f", "o", "o">>)
    /\ ValueOf(1) = None

\* a plain field: not empty, and free of quotes, backslashes, whitespace,
\* comment and delimiter characters
IsPlainField(f) ==
    /\ f # <<>>
    /\ \A m \in 1..Len(f) :
        f[m] \notin ShlexQuotes \cup ShlexEscape \cup PyWhitespace \cup {"#", ";"}

Fields(raw) == SplitOn(raw, ";")
PlainJoined(raw) == \A j \in 1..Len(Fields(raw)) : IsPlainField(Fields(raw)[j])

\* raw is two plain fields joined by a doubled delimiter
DoubledJoin(raw) ==
    /\ Len(Fields(raw)) = 3
    /\ IsPlainField(Fields(raw)[1])
    /\ Fields(raw)[2] = <<>>
    /\ IsPlainField(Fields(raw)[3])

Texts(fs) == PyList([j \in 1..Len(fs) |-> PyStr(fs[j])])

\* C6: a list argument whose text is plain fields joined by single ';' gets
\* exactly those fields, in order, each coerced by the element type; the
\* empty text gives the one element "".
C6_ListSplitting ==
    pc \in {"convert", "done", "raised"} =>
        \A i \in ArgIndex :
            (ListOnly(i) /\ FromText(i) /\ (RawText(i) = <<>> \/ PlainJoined(RawText(i)))) =>
                LET fs == IF RawText(i) = <<>> THEN << <<>> >> ELSE Fields(RawText(i))
                    Conv(j) == TYPES_MAPPING(arguments[i].list_type.s, PyStr(fs[j]))
                IN /\ pc = "convert" => ValueOf(i) = Texts(fs)
                   /\ pc = "done" =>
                        /\ Len(ValueOf(i).xs) = Len(fs)
                        /\ \A j \in 1..Len(fs) : ValueOf(i).xs[j] = Conv(j)
                   /\ pc = "raised" =>
                        /\ exc.type = "ValueError"
                        /\ \E j \in 1..Len(fs) : IsRaise(Conv(j))

\* "a;b;c" as list[str] is returned as "a", "b", "c"
C6_Witness ==
    /\ Returned
    /\ arguments[1].type = T_list_str
    /\ FromText(1)
    /\ RawText(1) = <<"a",";","b",";","c">>
    /\ ValueOf(1) = Texts(<<<<"a">>, <<"b">>, <<"c">>>>)

\* C2 as stated: two plain fields joined by a doubled delimiter tokenize to
\* exactly those two fields.
C2_Original ==
    pc = "convert" =>
        \A i \in ArgIndex :
            (ListOnly(i) /\ FromText(i) /\ DoubledJoin(RawText(i))) =>
                ValueOf(i) = Texts(<<Fields(RawText(i))[1], Fields(RawText(i))[3]>>)

\* C2, amended: two plain fields joined by a doubled delimiter tokenize to
\* three elements, the two fields with an empty element between them; no
\* element contains ';', and each is coerced by the element type (so
\* list[int] fails on the empty element).
C2_DoubledDelimiterGivesEmptyElement ==
    pc \in {"convert", "done", "raised"} =>
        \A i \in ArgIndex :
            (ListOnly(i) /\ FromText(i) /\ DoubledJoin(RawText(i))) =>
                LET fs == Fields(RawText(i))
                    Conv(j) == TYPES_MAPPING(arguments[i].list_type.s, PyStr(fs[j]))
                IN /\ pc = "convert" =>
                        /\ ValueOf(i) = Texts(<<fs[1], <<>>, fs[3]>>)
                        /\ \A j \in 1..3 : Find(ValueOf(i).xs[j].s, <<";">>) = 0
                   /\ pc = "done" =>
                        /\ Len(ValueOf(i).xs) = 3
                        /\ \A j \in 1..3 : ValueOf(i).xs[j] = Conv(j)
                   /\ pc = "raised" =>
                        /\ exc.type = "ValueError"
                        /\ \E j \in 1..3 : IsRaise(Conv(j))

\* "a;;b" as list[str] is returned as "a", "", "b"
C2_Witness ==
    /\ Returned
    /\ arguments[1].type = T_list_str
    /\ FromText(1)
    /\ RawText(1) = <<"a",";",";","b">>
    /\ ValueOf(1) = Texts(<<<<"a">>, <<>>, <<"b">>>>)

ArityError(i, actual, text) ==
    Raise("RuntimeError", [name |-> NameOf(i), expected |-> Arity(i),
                           actual |-> actual, value |-> text])

\* C3: a tuple argument whose text splits, shell style, into k >= 1 tokens
\* passes the arity check when k is the declared arity, the k tokens being
\* coerced positionally by the declared types, and otherwise fails with the
\* arity error that carries the name, the declared arity, k and the text.
C3_TupleArity ==
    pc \in {"convert", "done", "raised"} =>
        \A i \in ArgIndex :
            (TupleOnly(i) /\ FromText(i)) =>
                LET toks == shlex_split(RawText(i))
                    k == Len(toks.xs)
                    Conv(j) == TYPES_MAPPING(arguments[i].tuple_types[j], toks.xs[j])
                IN (~IsRaise(toks) /\ k >= 1) =>
                    IF k = Arity(i)
                    THEN /\ pc = "convert" => ValueOf(i) = toks
                         /\ pc = "done" =>
                              /\ Len(ValueOf(i).xs) = k
                              /\ \A j \in 1..k : ValueOf(i).xs[j] = Conv(j)
                         /\ pc = "raised" =>
                              /\ exc.type = "ValueError"
                              /\ \E j \in 1..k : IsRaise(Conv(j))
                    ELSE /\ pc = "raised"
                         /\ exc = ArityError(i, k, RawText(i))

\* "5 hello" as tuple[int,str] is returned as 5 and "hello"
C3_Witness ==
    /\ Returned
    /\ arguments[1].type = T_tuple_int_str
    /\ FromText(1)
    /\ RawText(1) = <<"5"," ","h","e","l","l","o">>
    /\ ValueOf(1) = PyList(<<PyInt(5), PyStr(<<"h","e","l","l","o">>)>>)

\* C4 as stated: the empty text for a tuple of arity 2 or more never
\* resolves: the run does not return.
C4_Original ==
    \A i \in 1..Len(arguments) :
        (TupleOnly(i) /\ FromText(i) /\ RawText(i) = <<>> /\ Arity(i) >= 2) =>
            pc # "done"

\* C4, amended: the empty text for a tuple gives the single field "" whatever
\* the declared arity, without an arity check; coercion then converts that
\* one field by the first declared type, so the run returns a one-field value
\* unless that type is int, whose conversion of "" fails.
C4_EmptyTupleSkipsArityCheck ==
    pc \in {"convert", "done", "raised"} =>
        \A i \in ArgIndex :
            (TupleOnly(i) /\ FromText(i) /\ RawText(i) = <<>>) =>
                LET first == TYPES_MAPPING(arguments[i].tuple_types[1], PyStr(<<>>))
                IN /\ pc = "convert" => ValueOf(i) = Texts(<< <<>> >>)
                   /\ pc = "done" => ValueOf(i) = PyList(<<first>>)
                   /\ pc = "raised" =>
                        /\ exc.type = "ValueError"
                        /\ arguments[i].tuple_types[1] = T_int

\* the empty text as tuple[str, int] is returned as the one field ""
C4_Witness ==
    /\ Returned
    /\ arguments[1].type = T_tuple_str_int
    /\ Arity(1) = 2
    /\ FromText(1)
    /\ RawText(1) = <<>>
    /\ ValueOf(1) = PyList(<<PyStr(<<>>)>>)

\* C5 as stated: every element of a returned list of tuples has as many
\* fields as the tuple declares.
C5_Original ==
    Returned =>
        \A i \in ArgIndex :
            (ListOfTuples(i) /\ FromText(i)) =>
                \A j \in 1..Len(ValueOf(i).xs) : Len(ValueOf(i).xs[j].xs) = Arity(i)

\* C5, amended: the text of a list of tuples is split into element texts on
\* ';' and each element text into fields; an element text with no token at
\* all becomes the one-field element "", every other element has exactly the
\* declared number of fields, coerced positionally, and the first element
\* text whose token count is neither 0 nor the declared arity fails the run
\* with the arity error.
C5_ListOfTuples ==
    pc \in {"convert", "done", "raised"} =>
        \A i \in ArgIndex :
            (ListOfTuples(i) /\ FromText(i)) =>
                LET elems == _split_list(arguments[i], RawText(i))
                    Toks(j) == shlex_split(elems.xs[j].s)
                    Count(j) == Len(Toks(j).xs)
                    Elem(j) == IF Count(j) = 0 THEN Texts(<< <<>> >>) ELSE Toks(j)
                    bad == {j \in 1..Len(elems.xs) : Count(j) \notin {0, Arity(i)}}
                    Conv(j, m) == TYPES_MAPPING(arguments[i].tuple_types[m], Elem(j).xs[m])
                IN (~IsRaise(elems) /\ \A j \in 1..Len(elems.xs) : ~IsRaise(Toks(j))) =>
                    IF bad = {}
                    THEN /\ pc = "convert" =>
                              ValueOf(i) = PyList([j \in 1..Len(elems.xs) |-> Elem(j)])
                         /\ pc = "done" =>
                              /\ Len(ValueOf(i).xs) = Len(elems.xs)
                              /\ \A j \in 1..Len(elems.xs) :
                                    /\ Len(ValueOf(i).xs[j].xs) =
                                            IF Count(j) = 0 THEN 1 ELSE Arity(i)
                                    /\ \A m \in 1..Len(ValueOf(i).xs[j].xs) :
                                            ValueOf(i).xs[j].xs[m] = Conv(j, m)
                         /\ pc = "raised" => exc.type = "ValueError"
                    ELSE LET j == CHOOSE j \in bad : \A m \in bad : j <= m
                         IN /\ pc = "raised"
                            /\ exc = ArityError(i, Count(j), elems.xs[j].s)

\* "1 2;3 4" as list[tuple[int,int]] is returned as (1, 2), (3, 4)
C5_Witness ==
    /\ Returned
    /\ arguments[1].type = T_list_tuple_int_int
    /\ FromText(1)
    /\ RawText(1) = <<"1"," ","2",";","3"," ","4">>
    /\ ValueOf(1) = PyList(<<PyList(<<PyInt(1), PyInt(2)>>), PyList(<<PyInt(3), PyInt(4)>>)>>)

====
